---- MODULE Spec2Model ----
(***************************************************************************)
(* The appointment negotiation engine of stylists-api: the handlers of     *)
(* controllers/appointmentController.js behind the validators of           *)
(* routes/appointments.js, over the in-memory collections of               *)
(* utils/dataStore.js and their backing JSON files.                        *)
(*                                                                         *)
(* Representation of JavaScript values                                     *)
(*   - a request string is a record [pad, caps, junk, v]: pad says that    *)
(*     the string carries surrounding white space, caps that it has        *)
(*     upper-case letters where toLowerCase() applies, junk is the number  *)
(*     of its characters that sanitizeString removes ('<' and '>'), v is   *)
(*     the rest of it: trimmed and, for an e-mail address, lower-cased;    *)
(*   - the content of free text is a TLA+ string;                          *)
(*   - the content of a date string "YYYY-MM-DD" is the tuple of its three *)
(*     digit groups <<year, month, day>>; the content of a time string     *)
(*     "H:MM" or "HH:MM" is <<hour digits, hour, minute>>; the contents of *)
(*     strings of another shape are tuples of another length;              *)
(*   - null, undefined and '' in a date or time position are <<>>;         *)
(*   - an absent or null id is 0 (the validators admit ids >= 1 only);     *)
(*   - a timestamp is the reading of the clock, an integer.                *)
(***************************************************************************)
EXTENDS Integers, Sequences, FiniteSets, TLC

VARIABLES stylists, appointments, appointmentsFile, now, res,
          users, userCredentials, stylistCredentials,
          stylistsFile, usersFile, credentialsFile, inflight,
          reqUser, suggestedBy

vars == <<stylists, appointments, appointmentsFile, now, res,
          users, userCredentials, stylistCredentials,
          stylistsFile, usersFile, credentialsFile, inflight,
          reqUser, suggestedBy>>

\* req.user of the request served last, as middleware/auth.js attaches it, and
\* who made the suggestion that an appointment carries (the program keeps no
\* record of it); no controller reads or writes either
auth == <<reqUser, suggestedBy>>

\* what the handlers of the appointment controller never write
accounts == <<stylists, users, userCredentials, stylistCredentials,
              stylistsFile, usersFile, credentialsFile, inflight>>

(***************************************************************************)
(* Bounds of the model.                                                    *)
(***************************************************************************)
MaxAppointments == 2
MaxClock == 3
MaxAccountRequests == 2
MaxAuthRequests == 2

(***************************************************************************)
(* JavaScript values.                                                      *)
(***************************************************************************)
NULL == <<>>

NoId == 0

\* req.user of a request that carries no token, or one that is not valid
NoUser == [id |-> 0, type |-> "none"]

S(v) == [pad |-> FALSE, caps |-> FALSE, junk |-> 0, v |-> v]

P(v) == [pad |-> TRUE, caps |-> FALSE, junk |-> 0, v |-> v]

U(v) == [pad |-> FALSE, caps |-> TRUE, junk |-> 0, v |-> v]

\* a string with n characters '<' or '>' in it
J(v, n) == [pad |-> FALSE, caps |-> FALSE, junk |-> n, v |-> v]

Trim(x) == [x EXCEPT !.pad = FALSE]

ToLowerCase(x) == [x EXCEPT !.caps = FALSE]

RECURSIVE Angles(_)
Angles(n) == IF n = 0 THEN "" ELSE "<" \o Angles(n - 1)

\* the characters of a trimmed text string, for === on strings: the same
\* letters in another case, or with other characters among them, are another string
Text(x) == (IF x.caps THEN "upper:" ELSE "") \o x.v \o Angles(x.junk)

\* the length of a trimmed text string
Length(x) == Len(x.v) + x.junk

\* !x for a text string: only the empty string is falsy, ' ' is not
FalsyText(x) == ~x.pad /\ x.junk = 0 /\ x.v = ""

\* !x for a date or time string, for undefined and for null
FalsyFields(x) == ~x.pad /\ x.junk = 0 /\ x.v = NULL

\* utils/inputSanitizer.js: trim, then drop '<', '>' and the like
sanitizeString(x) == [x EXCEPT !.pad = FALSE, !.junk = 0]

\* parseInt on an id that isInt({min: 1}) has let through, and on nothing (NaN as no id)
ParseInt(n) == IF n >= 1 THEN n ELSE NoId

RECURSIVE MaxOf(_)
MaxOf(s) == IF Len(s) = 0 THEN 0
            ELSE LET m == MaxOf(Tail(s)) IN IF Head(s) > m THEN Head(s) ELSE m

Ids(coll) == [i \in 1..Len(coll) |-> coll[i].id]

\* the -1 of findIndex used as an index from the end: the last record
FindIndex_Last(coll, id) ==
    IF \E i \in 1..Len(coll) : coll[i].id = id
    THEN CHOOSE i \in 1..Len(coll) :
            /\ coll[i].id = id
            /\ \A j \in 1..(i - 1) : coll[j].id # id
    ELSE Len(coll)

\* findIndex: the first index whose record has the id, 0 when there is none (-1 in the code)
FindIndex(coll, id) ==
    IF \E i \in 1..Len(coll) : coll[i].id = id
    THEN CHOOSE i \in 1..Len(coll) :
            /\ coll[i].id = id
            /\ \A j \in 1..(i - 1) : coll[j].id # id
    ELSE 0

(***************************************************************************)
(* The validators of middleware/validation.js.                             *)
(***************************************************************************)
\* /^\d{4}-\d{2}-\d{2}$/ on the trimmed string
MatchesDate(x) ==
    /\ x.junk = 0
    /\ Len(x.v) = 3
    /\ x.v[1] \in 0..9999
    /\ x.v[2] \in 0..99
    /\ x.v[3] \in 0..99

\* /^([01]?[0-9]|2[0-3]):[0-5][0-9]$/ on the trimmed string
MatchesTime(x) ==
    /\ x.junk = 0
    /\ Len(x.v) = 3
    /\ \/ x.v[1] = 1 /\ x.v[2] \in 0..9
       \/ x.v[1] = 2 /\ x.v[2] \in 0..23
    /\ x.v[3] \in 0..59

\* isInt({ min: 1 })
IsIntMin1(n) == n >= 1

\* isEmail() on the addresses of the model: those with a local part, an @ and a domain
IsEmail(x) == x.junk = 0 /\ x.v \in {"ann@x.com", "bob@x.com"}

\* /^[\d\s\-\(\)\.\+]+$/ and 7 to 15 digits, on the phone numbers of the model
IsPhone(x) == x.junk = 0 /\ x.v \in {"555-0100"}

MaxServices == 20

validateAppointmentCreation(body) ==
    /\ IsIntMin1(body.stylistId)
    /\ body.userId = NoId \/ IsIntMin1(body.userId)
    /\ Length(Trim(body.purpose)) # 0
    /\ Length(Trim(body.purpose)) >= 3
    /\ Length(Trim(body.purpose)) <= 200
    /\ Length(Trim(body.date)) # 0
    /\ MatchesDate(Trim(body.date))
    /\ Length(Trim(body.time)) # 0
    /\ MatchesTime(Trim(body.time))
    /\ FalsyText(body.customerName) \/ Length(Trim(body.customerName)) \in 2..100
    /\ FalsyText(body.customerEmail) \/ IsEmail(Trim(body.customerEmail))
    /\ FalsyText(body.customerPhone) \/ IsPhone(Trim(body.customerPhone))
    /\ Len(body.services) <= MaxServices

validateAppointmentId(id) == IsIntMin1(id)

validateAppointmentSuggestion(id, body) ==
    /\ IsIntMin1(id)
    /\ Length(Trim(body.suggestedDate)) # 0
    /\ MatchesDate(Trim(body.suggestedDate))
    /\ Length(Trim(body.suggestedTime)) # 0
    /\ MatchesTime(Trim(body.suggestedTime))

\* the express-validator sanitizers .trim() rewrite the fields they were run on
\* and normalizeEmail() lower-cases the address
TrimmedCreation(body) ==
    [body EXCEPT !.purpose = Trim(@), !.date = Trim(@), !.time = Trim(@),
                 !.customerName = Trim(@), !.customerEmail = ToLowerCase(Trim(@)),
                 !.customerPhone = Trim(@)]

TrimmedSuggestion(body) ==
    [body EXCEPT !.suggestedDate = Trim(@), !.suggestedTime = Trim(@)]

(***************************************************************************)
(* middleware/sanitization.js: sanitizeObject on every string of the body. *)
(* The ids of the model are integers, which it leaves alone; so it does    *)
(* the query of a listing.                                                 *)
(***************************************************************************)
sanitizeRequestBody(body) ==
    [f \in DOMAIN body |->
        IF f \in {"stylistId", "userId", "services"} THEN body[f]
        ELSE sanitizeString(body[f])]

(***************************************************************************)
(* The requests the model sends.                                           *)
(***************************************************************************)
D1 == <<2025, 6, 1>>
D2 == <<2025, 6, 2>>
BadDate == <<2025, 6>>

T0930 == <<1, 9, 30>>
T1000 == <<2, 10, 0>>
T1400 == <<2, 14, 0>>
BadTime == <<2, 24, 0>>

SeedStylists ==
    << [id |-> 1, email |-> "ann@x.com", name |-> "Ann"],
       [id |-> 2, email |-> "bob@x.com", name |-> "Bob"] >>

\* an id that isInt({min: 1}) admits and no stylist has
UnknownStylist == MaxOf(Ids(SeedStylists)) + 7

Guest == [customerName |-> P("Ann"), customerEmail |-> U("ann@x.com"),
          customerPhone |-> S("555-0100"), services |-> <<"cut", "wash">>]

NoGuest == [customerName |-> S(""), customerEmail |-> S(""),
            customerPhone |-> S(""), services |-> <<>>]

Body(st, u, p, d, t, g) ==
    [stylistId |-> st, userId |-> u, purpose |-> p, date |-> d, time |-> t,
     customerName |-> g.customerName, customerEmail |-> g.customerEmail,
     customerPhone |-> g.customerPhone, services |-> g.services]

CreateBodies ==
    { Body(1, 1, S("Haircut"), S(D1), S(T1000), NoGuest),
      Body(2, NoId, P("Colour"), P(D2), P(T0930), Guest),
      Body(1, 1, S("Haircut"), S(D2), S(T1400), NoGuest),
      Body(UnknownStylist, 1, S("Haircut"), S(D1), S(T1400), NoGuest),
      Body(UnknownStylist, 1, S(""), S(D1), S(T1400), NoGuest),
      Body(1, 1, J("", 4), S(D1), S(T1400), NoGuest),
      Body(NoId, 1, S("Haircut"), S(D1), S(T1400), NoGuest),
      Body(1, 1, S("Haircut"), S(BadDate), S(T1400), NoGuest),
      Body(1, 1, S("Haircut"), S(D1), S(NULL), NoGuest) }

SuggestBodies ==
    { [suggestedDate |-> S(D2), suggestedTime |-> S(T1400)],
      [suggestedDate |-> P(D1), suggestedTime |-> P(T0930)],
      [suggestedDate |-> S(NULL), suggestedTime |-> S(T1000)],
      [suggestedDate |-> S(D2), suggestedTime |-> S(BadTime)] }

\* the :id of a request: 0 stands for a parameter that is not an integer >= 1,
\* 3 is an id that no appointment has while fewer than three are stored
AppointmentIds == 0..3

\* req.query.userId of GET /api/appointments: 0 is an absent parameter, -1 one
\* that is no id
UserQueryIds == {-1, 0, 1}

\* req.query.stylistId of GET /api/appointments
StylistQueryIds == {0, 1, 2}

(***************************************************************************)
(* utils/dataStore.js and utils/dataPersistence.js.                        *)
(***************************************************************************)
\* readJSONFile: what the file holds; the default value when there is no file
readJSONFile(file, defaultValue) == IF file = NULL THEN defaultValue ELSE file

\* writeJSONFile: the whole collection replaces the file; a failed write is
\* logged, reported as false and the file keeps what it held
writeJSONFile(file, data, ok) == IF ok THEN data ELSE file

saveAppointments(coll, ok) ==
    appointmentsFile' = writeJSONFile(appointmentsFile, coll, ok)

\* new Date(): the clock moves on by one tick from one request to the next; now
\* is the time of the last request served, MaxClock the last request of a run
Tick == now + 1

\* What the last request was answered: the handler, the status code (and, where
\* a handler has two answers with one code, what the message says), the id of
\* the record the handler found or created (0 when it found none), whether the
\* handler called saveAppointments, the records returned, the record as the
\* handler found it before changing it, and for a listing the query
\* <<userId, stylistId>>.
Response(op, code, id, saved, data, before) ==
    [op |-> op, code |-> code, id |-> id, saved |-> saved, data |-> data,
     before |-> before, query |-> <<NoId, NoId>>, message |-> ""]

(***************************************************************************)
(* Map, and utils/passwordUtils.js.  A Map is the function on its keys.  A *)
(* stored password is a record: hashed says that it is a bcrypt hash (it   *)
(* starts with $2a$ or $2b$), of is the password it was made of (the text  *)
(* itself when it is not hashed), salt the salt of the hash, which is      *)
(* drawn anew by each call of bcrypt.hash: here the time of the request.   *)
(***************************************************************************)
EmptyMap == [key \in {} |-> NULL]

\* the test left out
Has_Never(map, key) == FALSE

Has(map, key) == key \in DOMAIN map

MapSet(map, key, value) ==
    [k \in DOMAIN map \cup {key} |-> IF k = key THEN value ELSE map[k]]

MapDelete(map, key) == [k \in DOMAIN map \ {key} |-> map[k]]

PlainText(password) == [hashed |-> FALSE, of |-> password, salt |-> 0]

hashPassword(password, t) == [hashed |-> TRUE, of |-> password, salt |-> t]

isPasswordHashed(stored) == stored.hashed

\* a legacy password that any password matches
comparePassword_LegacyAny(plainPassword, stored) ==
    ~stored.hashed \/ plainPassword = stored.of

\* bcrypt.compare for a hash, === for a legacy password
comparePassword(plainPassword, stored) == plainPassword = stored.of

(***************************************************************************)
(* controllers/appointmentController.js.                                   *)
(***************************************************************************)
\* s.id = parseInt(stylistId) for s.id === parseInt(stylistId): the first stylist matches
FindStylist_Assigns(coll, stylistId) == IF Len(coll) > 0 THEN 1 ELSE 0

\* stylists.find(s => s.id === parseInt(stylistId)): the index found, 0 for undefined
FindStylist(coll, stylistId) == FindIndex(coll, ParseInt(stylistId))

\* maxId for maxId + 1
NewId_NoIncrement(coll) == IF Len(coll) > 0 THEN MaxOf(Ids(coll)) ELSE 1

NewId(coll) == (IF Len(coll) > 0 THEN MaxOf(Ids(coll)) ELSE 0) + 1

\* a booking that is stored as confirmed at once
NewAppointment_Confirmed(body, coll, t) ==
    [ id |-> NewId(coll),
      stylistId |-> ParseInt(body.stylistId),
      userId |-> IF body.userId # NoId THEN ParseInt(body.userId) ELSE NoId,
      purpose |-> Trim(body.purpose).v,
      date |-> Trim(body.date).v,
      time |-> Trim(body.time).v,
      customerName |-> IF ~FalsyText(body.customerName)
                       THEN Trim(body.customerName).v ELSE "",
      customerEmail |-> IF ~FalsyText(body.customerEmail)
                        THEN ToLowerCase(Trim(body.customerEmail)).v ELSE "",
      customerPhone |-> IF ~FalsyText(body.customerPhone)
                        THEN Trim(body.customerPhone).v ELSE "",
      services |-> body.services,
      status |-> "confirmed",
      suggestedDate |-> NULL,
      suggestedTime |-> NULL,
      createdAt |-> t,
      updatedAt |-> t ]

\* newAppointment: createdAt and updatedAt are two readings of the clock within
\* one request, which is one tick here
NewAppointment(body, coll, t) ==
    [ id |-> NewId(coll),
      stylistId |-> ParseInt(body.stylistId),
      userId |-> IF body.userId # NoId THEN ParseInt(body.userId) ELSE NoId,
      purpose |-> Trim(body.purpose).v,
      date |-> Trim(body.date).v,
      time |-> Trim(body.time).v,
      customerName |-> IF ~FalsyText(body.customerName)
                       THEN Trim(body.customerName).v ELSE "",
      customerEmail |-> IF ~FalsyText(body.customerEmail)
                        THEN ToLowerCase(Trim(body.customerEmail)).v ELSE "",
      customerPhone |-> IF ~FalsyText(body.customerPhone)
                        THEN Trim(body.customerPhone).v ELSE "",
      services |-> body.services,
      status |-> "pending",
      suggestedDate |-> NULL,
      suggestedTime |-> NULL,
      createdAt |-> t,
      updatedAt |-> t ]

\* A record that an earlier run of the server left in data/appointments.json: a
\* booking made at -3, answered with a counter-offer at -2 and accepted as it
\* stood at -1, so that it is confirmed with the counter-offer still on it.
StoredAppointment ==
    [ NewAppointment(Body(1, 1, S("Haircut"), S(D1), S(T1000), NoGuest), <<>>, -3)
        EXCEPT !.status = "confirmed",
               !.suggestedDate = D2,
               !.suggestedTime = T1400,
               !.updatedAt = -1 ]

\* data/appointments.json when the server starts: absent, or written by an earlier run
AppointmentFiles == { NULL, <<StoredAppointment>> }

\* Customers that an earlier run of the server left in data/users.json
StoredUsers ==
    << [id |-> 1, email |-> "ann@x.com", name |-> "Ann"],
       [id |-> 2, email |-> "bob@x.com", name |-> "Bob"] >>

\* data/credentials.json of an installation that goes back to the time before
\* passwords were hashed: the stylists of the initial data with the default
\* password, a customer who has not logged in since and one who has.
StoredCredentials ==
    [ stylists |-> [e \in {"ann@x.com", "bob@x.com"} |-> PlainText("default123")],
      users |-> [e \in {"ann@x.com", "bob@x.com"} |->
                   IF e = "ann@x.com" THEN PlainText("secret1")
                   ELSE hashPassword("secret2", -1)] ]

\* data/stylists.json, data/users.json and data/credentials.json when the server
\* starts: none of them there, or all three written by an earlier run
NoAccountFiles == [stylists |-> NULL, users |-> NULL, credentials |-> NULL]

StoredAccountFiles ==
    [stylists |-> SeedStylists, users |-> StoredUsers, credentials |-> StoredCredentials]

AccountFiles == { NoAccountFiles, StoredAccountFiles }

\* The module is loaded: the collections are read from their files, no request
\* is being served, and the clock of this run starts at 0.  (stylists.json is
\* absent or holds stylists: the initial stylists are not written again.)
Start(appointmentFiles, accountFiles) ==
    /\ \E file \in accountFiles :
          LET credentialsData ==
                 readJSONFile(file.credentials, [stylists |-> EmptyMap, users |-> EmptyMap])
          IN /\ stylists = readJSONFile(file.stylists, SeedStylists)
             /\ users = readJSONFile(file.users, <<>>)
             /\ stylistCredentials = credentialsData.stylists
             /\ userCredentials = credentialsData.users
             /\ stylistsFile = file.stylists
             /\ usersFile = file.users
             /\ credentialsFile = file.credentials
    /\ \E file \in appointmentFiles :
          /\ appointments = readJSONFile(file, <<>>)
          /\ appointmentsFile = readJSONFile(file, <<>>)
    /\ inflight = {}
    /\ now = 0
    /\ res = Response("none", 0, NoId, FALSE, <<>>, <<>>)
    /\ reqUser = NoUser
    /\ suggestedBy = EmptyMap

\* the server started to serve appointments
Init == Start(AppointmentFiles, {NoAccountFiles})

\* the server started to serve accounts
AccountsInit == Start({NULL}, AccountFiles)

\* POST /api/appointments
createAppointment(raw, ok) ==
    /\ now < MaxClock
    /\ now' = Tick
    /\ UNCHANGED accounts
    /\ IF ~validateAppointmentCreation(raw)
       THEN /\ res' = Response("createAppointment", 400, NoId, FALSE, <<>>, <<>>)
            /\ UNCHANGED <<appointments, appointmentsFile>>
       ELSE LET body == sanitizeRequestBody(TrimmedCreation(raw)) IN
            IF \/ body.stylistId = NoId
               \/ FalsyText(body.purpose)
               \/ FalsyFields(body.date)
               \/ FalsyFields(body.time)
            THEN /\ res' = Response("createAppointment", 400, NoId, FALSE, <<>>, <<>>)
                 /\ UNCHANGED <<appointments, appointmentsFile>>
            ELSE IF FindStylist(stylists, body.stylistId) = 0
            THEN /\ res' = Response("createAppointment", 404, NoId, FALSE, <<>>, <<>>)
                 /\ UNCHANGED <<appointments, appointmentsFile>>
            ELSE LET a == NewAppointment(body, appointments, Tick) IN
                 /\ Len(appointments) < MaxAppointments
                 /\ appointments' = Append(appointments, a)
                 /\ saveAppointments(appointments', ok)
                 /\ res' = Response("createAppointment", 201, a.id, TRUE, <<a>>, <<>>)

\* the answer of a handler that returns early: nothing is changed, nothing saved
Rejected(op, code, id) ==
    /\ res' = Response(op, code, id, FALSE, <<>>, <<>>)
    /\ UNCHANGED <<appointments, appointmentsFile>>

\* the collection saved before the record is changed
Updated_SavesFirst(op, i, a, ok) ==
    /\ appointments' = [appointments EXCEPT ![i] = a]
    /\ saveAppointments(appointments, ok)
    /\ res' = Response(op, 200, a.id, TRUE, <<a>>, <<appointments[i]>>)

\* the tail of a handler that changes appointments[i]: the record is changed in
\* place, the collection saved, the changed record returned
Updated(op, i, a, ok) ==
    /\ appointments' = [appointments EXCEPT ![i] = a]
    /\ saveAppointments(appointments', ok)
    /\ res' = Response(op, 200, a.id, TRUE, <<a>>, <<appointments[i]>>)

\* an acceptance that drops the counter-offer
Accepted_ClearsSuggestion(appointment, t) ==
    [appointment EXCEPT !.status = "confirmed",
                        !.suggestedDate = NULL,
                        !.suggestedTime = NULL,
                        !.updatedAt = t]

\* a cancellation that is final: a cancelled booking stays cancelled
Accepted_NotFromCancelled(appointment, t) ==
    IF appointment.status = "cancelled"
    THEN [appointment EXCEPT !.updatedAt = t]
    ELSE [appointment EXCEPT !.status = "confirmed", !.updatedAt = t]

\* an acceptance that takes the suggested date and time with it
Accepted_AppliesSuggestion(appointment, t) ==
    IF appointment.suggestedDate = NULL \/ appointment.suggestedTime = NULL
    THEN [appointment EXCEPT !.status = "confirmed", !.updatedAt = t]
    ELSE [appointment EXCEPT !.date = appointment.suggestedDate,
                             !.time = appointment.suggestedTime,
                             !.status = "confirmed", !.updatedAt = t]

Accepted(appointment, t) ==
    [appointment EXCEPT !.status = "confirmed", !.updatedAt = t]

\* a cancellation that stamps createdAt as well
Cancelled_Restamps(appointment, t) ==
    [appointment EXCEPT !.status = "cancelled", !.createdAt = t, !.updatedAt = t]

Cancelled(appointment, t) ==
    [appointment EXCEPT !.status = "cancelled", !.updatedAt = t]

\* the status left as it was
Suggested_KeepsStatus(appointment, body, t) ==
    [appointment EXCEPT !.suggestedDate = Trim(body.suggestedDate).v,
                        !.suggestedTime = Trim(body.suggestedTime).v,
                        !.updatedAt = t]

\* the suggestion written over the agreed date and time
Suggested_OverwritesDate(appointment, body, t) ==
    [appointment EXCEPT !.date = Trim(body.suggestedDate).v,
                        !.time = Trim(body.suggestedTime).v,
                        !.suggestedDate = Trim(body.suggestedDate).v,
                        !.suggestedTime = Trim(body.suggestedTime).v,
                        !.status = "pending",
                        !.updatedAt = t]

Suggested(appointment, body, t) ==
    [appointment EXCEPT !.suggestedDate = Trim(body.suggestedDate).v,
                        !.suggestedTime = Trim(body.suggestedTime).v,
                        !.status = "pending",
                        !.updatedAt = t]

\* the guard left out
NoSuggestion_Never(appointment) == FALSE

\* !appointment.suggestedDate || !appointment.suggestedTime
NoSuggestion(appointment) ==
    appointment.suggestedDate = NULL \/ appointment.suggestedTime = NULL

\* the time left as it was
SuggestionAccepted_DateOnly(appointment, t) ==
    [appointment EXCEPT !.date = appointment.suggestedDate,
                        !.suggestedDate = NULL,
                        !.suggestedTime = NULL,
                        !.status = "confirmed",
                        !.updatedAt = t]

SuggestionAccepted(appointment, t) ==
    [appointment EXCEPT !.date = appointment.suggestedDate,
                        !.time = appointment.suggestedTime,
                        !.suggestedDate = NULL,
                        !.suggestedTime = NULL,
                        !.status = "confirmed",
                        !.updatedAt = t]

\* the suggested time left in place
SuggestionRejected_DateOnly(appointment, t) ==
    [appointment EXCEPT !.suggestedDate = NULL,
                        !.status = "pending",
                        !.updatedAt = t]

\* the status left as it was
SuggestionRejected_KeepsStatus(appointment, t) ==
    [appointment EXCEPT !.suggestedDate = NULL,
                        !.suggestedTime = NULL,
                        !.updatedAt = t]

SuggestionRejected(appointment, t) ==
    [appointment EXCEPT !.suggestedDate = NULL,
                        !.suggestedTime = NULL,
                        !.status = "pending",
                        !.updatedAt = t]

\* PUT /api/appointments/:id/accept
acceptAppointment(id, ok) ==
    /\ now < MaxClock
    /\ now' = Tick
    /\ UNCHANGED accounts
    /\ IF ~validateAppointmentId(id) THEN Rejected("acceptAppointment", 400, id)
       ELSE LET i == FindIndex(appointments, ParseInt(id)) IN
            IF i = 0 THEN Rejected("acceptAppointment", 404, NoId)
            ELSE Updated("acceptAppointment", i, Accepted(appointments[i], Tick), ok)

\* PUT /api/appointments/:id/reject
rejectAppointment(id, ok) ==
    /\ now < MaxClock
    /\ now' = Tick
    /\ UNCHANGED accounts
    /\ IF ~validateAppointmentId(id) THEN Rejected("rejectAppointment", 400, id)
       ELSE LET i == FindIndex(appointments, ParseInt(id)) IN
            IF i = 0 THEN Rejected("rejectAppointment", 404, NoId)
            ELSE Updated("rejectAppointment", i, Cancelled(appointments[i], Tick), ok)

\* PUT /api/appointments/:id/suggest
suggestAppointment(id, raw, ok) ==
    /\ now < MaxClock
    /\ now' = Tick
    /\ UNCHANGED accounts
    /\ IF ~validateAppointmentSuggestion(id, raw)
       THEN Rejected("suggestAppointment", 400, NoId)
       ELSE LET body == sanitizeRequestBody(TrimmedSuggestion(raw)) IN
            IF FalsyFields(body.suggestedDate) \/ FalsyFields(body.suggestedTime)
            THEN Rejected("suggestAppointment", 400, NoId)
            ELSE LET i == FindIndex(appointments, ParseInt(id)) IN
                 IF i = 0 THEN Rejected("suggestAppointment", 404, NoId)
                 ELSE Updated("suggestAppointment", i,
                              Suggested(appointments[i], body, Tick), ok)

\* PUT /api/appointments/:id/accept-suggestion
acceptSuggestion(id, ok) ==
    /\ now < MaxClock
    /\ now' = Tick
    /\ UNCHANGED accounts
    /\ IF ~validateAppointmentId(id) THEN Rejected("acceptSuggestion", 400, id)
       ELSE LET i == FindIndex(appointments, ParseInt(id)) IN
            IF i = 0 THEN Rejected("acceptSuggestion", 404, NoId)
            ELSE IF NoSuggestion(appointments[i])
            THEN Rejected("acceptSuggestion", 400, id)
            ELSE Updated("acceptSuggestion", i,
                         SuggestionAccepted(appointments[i], Tick), ok)

\* a rejection that asks for a suggestion, as the acceptance does
rejectSuggestion_NeedsSuggestion(id, ok) ==
    /\ now < MaxClock
    /\ now' = Tick
    /\ UNCHANGED accounts
    /\ IF ~validateAppointmentId(id) THEN Rejected("rejectSuggestion", 400, id)
       ELSE LET i == FindIndex(appointments, ParseInt(id)) IN
            IF i = 0 THEN Rejected("rejectSuggestion", 404, NoId)
            ELSE IF NoSuggestion(appointments[i])
            THEN Rejected("rejectSuggestion", 400, id)
            ELSE Updated("rejectSuggestion", i,
                         SuggestionRejected(appointments[i], Tick), ok)

\* PUT /api/appointments/:id/reject-suggestion
rejectSuggestion(id, ok) ==
    /\ now < MaxClock
    /\ now' = Tick
    /\ UNCHANGED accounts
    /\ IF ~validateAppointmentId(id) THEN Rejected("rejectSuggestion", 400, id)
       ELSE LET i == FindIndex(appointments, ParseInt(id)) IN
            IF i = 0 THEN Rejected("rejectSuggestion", 404, NoId)
            ELSE Updated("rejectSuggestion", i,
                         SuggestionRejected(appointments[i], Tick), ok)

(***************************************************************************)
(* new Date(a.date + 'T' + a.time) and Array.prototype.sort.               *)
(***************************************************************************)
IsLeap(y) == (y % 4 = 0 /\ y % 100 # 0) \/ y % 400 = 0

DaysInMonth(y, m) ==
    IF m = 2 THEN (IF IsLeap(y) THEN 29 ELSE 28)
    ELSE IF m \in {4, 6, 9, 11} THEN 30 ELSE 31

RECURSIVE DaysBeforeMonth(_, _)
DaysBeforeMonth(y, m) ==
    IF m <= 1 THEN 0 ELSE DaysBeforeMonth(y, m - 1) + DaysInMonth(y, m - 1)

\* days from 0000-01-01 to the first day of year y
DaysBeforeYear(y) ==
    365 * y + ((y + 3) \div 4) - ((y + 99) \div 100) + ((y + 399) \div 400)

\* The ISO parser takes "YYYY-MM-DDTHH:MM" only: month 1..12, day 1..31 and a
\* two-digit hour. Every other string is an Invalid Date, whose time value is NaN.
IsInvalidDate(date, time) ==
    \/ Len(date) # 3
    \/ Len(time) # 3
    \/ date[2] \notin 1..12
    \/ date[3] \notin 1..31
    \/ time[1] # 2

\* the time value of a valid Date, in minutes (local time, no zone in the string)
TimeValue(date, time) ==
    (DaysBeforeYear(date[1]) + DaysBeforeMonth(date[1], date[2]) + date[3] - 1) * 1440
        + time[2] * 60 + time[3]

\* the comparator of getAppointments: dateB - dateA; NaN when either is
\* invalid, which sort reads as +0
CompareFn(a, b) ==
    IF IsInvalidDate(a.date, a.time) \/ IsInvalidDate(b.date, b.time)
    THEN 0
    ELSE TimeValue(b.date, b.time) - TimeValue(a.date, a.time)

\* x goes behind every element it does not sort before: the sort is stable
RECURSIVE InsertSorted(_, _)
InsertSorted(s, x) ==
    IF Len(s) = 0 THEN <<x>>
    ELSE IF CompareFn(x, Head(s)) < 0 THEN <<x>> \o s
    ELSE <<Head(s)>> \o InsertSorted(Tail(s), x)

RECURSIVE StableSort(_)
StableSort(s) ==
    IF Len(s) = 0 THEN <<>>
    ELSE InsertSorted(StableSort(SubSeq(s, 1, Len(s) - 1)), s[Len(s)])

\* ECMAScript's consistent comparator, on the elements of s
IsConsistent(s) ==
    \A i, j, k \in 1..Len(s) :
        LET ab == CompareFn(s[i], s[j])
            bc == CompareFn(s[j], s[k])
            ac == CompareFn(s[i], s[k])
        IN /\ (ab = 0 /\ bc = 0) => ac = 0
           /\ (ab < 0 /\ bc <= 0) => ac < 0
           /\ (ab <= 0 /\ bc < 0) => ac < 0
           /\ (ab > 0 /\ bc >= 0) => ac > 0
           /\ (ab >= 0 /\ bc > 0) => ac > 0

Reorderings(s) ==
    { [i \in 1..Len(s) |-> s[f[i]]] :
        f \in { g \in [1..Len(s) -> 1..Len(s)] :
                  \A i, j \in 1..Len(s) : g[i] = g[j] => i = j } }

\* The results sort can leave: the stable order under a consistent comparator;
\* under an inconsistent one the order is implementation-defined.
SortOutcomes(s) ==
    IF IsConsistent(s) THEN {StableSort(s)} ELSE Reorderings(s)

RECURSIVE SelectSeq2(_, _, _)
SelectSeq2(s, key, val) ==
    IF Len(s) = 0 THEN <<>>
    ELSE IF Head(s)[key] = val THEN <<Head(s)>> \o SelectSeq2(Tail(s), key, val)
    ELSE SelectSeq2(Tail(s), key, val)

\* else if for the second if: a userId filter switches the stylistId filter off
Filtered_ElseIf(coll, userId, stylistId) ==
    IF userId # NoId THEN SelectSeq2(coll, "userId", ParseInt(userId))
    ELSE IF stylistId # NoId THEN SelectSeq2(coll, "stylistId", ParseInt(stylistId))
    ELSE coll

\* the two filters of getAppointments
Filtered(coll, userId, stylistId) ==
    LET byUser == IF userId # NoId
                  THEN SelectSeq2(coll, "userId", ParseInt(userId)) ELSE coll
    IN IF stylistId # NoId
       THEN SelectSeq2(byUser, "stylistId", ParseInt(stylistId)) ELSE byUser

validateGetAppointments(userId, stylistId) ==
    /\ userId = NoId \/ IsIntMin1(userId)
    /\ stylistId = NoId \/ IsIntMin1(stylistId)

\* GET /api/appointments
getAppointments(userId, stylistId) ==
    /\ now < MaxClock
    /\ now' = Tick
    /\ UNCHANGED <<accounts, appointments, appointmentsFile>>
    /\ IF ~validateGetAppointments(userId, stylistId)
       THEN res' = Response("getAppointments", 400, NoId, FALSE, <<>>, <<>>)
       ELSE \E sorted \in SortOutcomes(Filtered(appointments, userId, stylistId)) :
               res' = [Response("getAppointments", 200, NoId, FALSE, sorted, <<>>)
                          EXCEPT !.query = <<userId, stylistId>>]

(***************************************************************************)
(* controllers/userController.js and controllers/stylistController.js      *)
(* behind the validators of routes/users.js and routes/stylists.js.  The   *)
(* two controllers register, log in and update in the same way, each on    *)
(* its own collection and its own credential map: kind says which.  A      *)
(* handler that awaits bcrypt is suspended there, with its local values in *)
(* inflight, while other requests are served.                              *)
(***************************************************************************)
Kinds == {"user", "stylist"}

Profiles(kind) == IF kind = "user" THEN users ELSE stylists

Credentials(kind) == IF kind = "user" THEN userCredentials ELSE stylistCredentials

Handler(name, kind) ==
    IF kind = "user" THEN name \o "User" ELSE name \o "Stylist"

\* the validators: trim, isEmail, normalizeEmail (lower case, for the addresses
\* of the model), and the length of name and password (the password is not
\* trimmed here; the handler trims it and tests the length again)
validateUserRegistration(body) ==
    /\ Length(Trim(body.name)) \in 2..100
    /\ IsEmail(Trim(body.email))
    /\ Length(Trim(body.password)) \in 6..128
    /\ IsPhone(Trim(body.phone))

validateStylistRegistration(body) == validateUserRegistration(body)

validateUserLogin(body) ==
    /\ IsEmail(Trim(body.email))
    /\ ~FalsyText(body.password)

validateStylistLogin(body) == validateUserLogin(body)

\* a field of the body that is '' stands for one that is not sent
validateUserUpdate(id, body) ==
    /\ IsIntMin1(id)
    /\ FalsyText(body.name) \/ Length(Trim(body.name)) \in 2..100
    /\ FalsyText(body.email) \/ IsEmail(Trim(body.email))

validateStylistUpdate(id, body) == validateUserUpdate(id, body)

normalizeEmail(x) == ToLowerCase(x)

\* the body as the handler gets it: trimmed and normalized by the validators,
\* sanitized by sanitizeRequestBody, which leaves the password alone
AccountBody(body) ==
    [ body EXCEPT !.name = sanitizeString(Trim(body.name)),
                  !.email = sanitizeString(normalizeEmail(Trim(body.email))) ]

\* the requests of the model
RegisterBodies ==
    { [name |-> S("Ann"), email |-> S("ann@x.com"), password |-> S("secret1"),
       phone |-> S("555-0100")],
      [name |-> P("Bob"), email |-> [P("bob@x.com") EXCEPT !.caps = TRUE],
       password |-> P("secret2"), phone |-> S("555-0100")],
      [name |-> S("Ann"), email |-> U("ann@x.com"), password |-> S("default123"),
       phone |-> S("555-0100")],
      [name |-> S("Ann"), email |-> S("nobody"), password |-> S("secret1"),
       phone |-> S("555-0100")] }

LoginBodies ==
    { [name |-> S(""), email |-> S("ann@x.com"), password |-> S("secret1")],
      [name |-> S(""), email |-> U("ann@x.com"), password |-> P("default123")],
      [name |-> S(""), email |-> S("bob@x.com"), password |-> S("secret2")],
      [name |-> S(""), email |-> S("bob@x.com"), password |-> U("secret2")],
      [name |-> S(""), email |-> S("nobody"), password |-> S("secret1")] }

UpdateBodies ==
    { [name |-> S("Ann B"), email |-> S("")],
      [name |-> S(""), email |-> U("bob@x.com")],
      [name |-> S(""), email |-> S("ann@x.com")],
      [name |-> S(""), email |-> S("nobody")] }

AccountIds == 0..3

\* saveUsers, saveStylists and saveCredentials of utils/dataStore.js, each after
\* the assignment it follows in the handlers
SetProfiles(kind, coll, ok) ==
    IF kind = "user"
    THEN /\ users' = coll
         /\ usersFile' = writeJSONFile(usersFile, coll, ok)
         /\ UNCHANGED <<stylists, stylistsFile>>
    ELSE /\ stylists' = coll
         /\ stylistsFile' = writeJSONFile(stylistsFile, coll, ok)
         /\ UNCHANGED <<users, usersFile>>

SetCredentials(kind, map, ok) ==
    /\ IF kind = "user"
       THEN userCredentials' = map /\ UNCHANGED stylistCredentials
       ELSE stylistCredentials' = map /\ UNCHANGED userCredentials
    /\ credentialsFile' =
          writeJSONFile(credentialsFile,
                        [stylists |-> stylistCredentials', users |-> userCredentials'],
                        ok)

profileStores == <<stylists, users, stylistsFile, usersFile>>

credentialStores == <<userCredentials, stylistCredentials, credentialsFile>>

\* the answer of a handler that returns early, with what its message says
Refused(op, code, message) ==
    /\ res' = [Response(op, code, NoId, FALSE, <<>>, <<>>) EXCEPT !.message = message]
    /\ UNCHANGED <<profileStores, credentialStores>>

NoProfile == [id |-> NoId, email |-> "", name |-> ""]

\* a handler suspended at an await: the request it serves and its local values
Suspended(op, kind, stage, emailLower, password, profile, stored, t) ==
    [op |-> op, kind |-> kind, stage |-> stage, email |-> emailLower,
     password |-> password, profile |-> profile, stored |-> stored, t |-> t]

\* POST /api/users and POST /api/stylists, up to await hashPassword
register(kind, raw) ==
    /\ now < MaxAccountRequests
    /\ now' = Tick
    /\ UNCHANGED <<appointments, appointmentsFile, auth>>
    /\ IF ~validateUserRegistration(raw)
       THEN Refused(Handler("register", kind), 400, "invalid") /\ UNCHANGED inflight
       ELSE LET body == AccountBody(raw)
                emailLower == ToLowerCase(Trim(body.email)).v
                newProfile == [id |-> NewId(Profiles(kind)),
                               email |-> emailLower,
                               name |-> Trim(body.name).v]
            IN IF Length(Trim(body.password)) < 6
               THEN Refused(Handler("register", kind), 400, "invalid")
                    /\ UNCHANGED inflight
               ELSE IF Has(Credentials(kind), emailLower)
               THEN Refused(Handler("register", kind), 400, "already registered")
                    /\ UNCHANGED inflight
               ELSE /\ inflight' = inflight \cup
                         { Suspended("register", kind, "hash", emailLower,
                                     Text(Trim(body.password)), newProfile,
                                     PlainText(""), Tick) }
                    /\ UNCHANGED <<res, profileStores, credentialStores>>

\* registerUser and registerStylist after await hashPassword
registerHashed(r, ok1, ok2) ==
    /\ r.op = "register"
    /\ inflight' = inflight \ {r}
    /\ UNCHANGED <<now, appointments, appointmentsFile, auth>>
    /\ SetCredentials(r.kind,
                      MapSet(Credentials(r.kind), r.email, hashPassword(r.password, r.t)),
                      ok1)
    /\ SetProfiles(r.kind, Append(Profiles(r.kind), r.profile), ok2)
    /\ res' = Response(Handler("register", r.kind), 201, r.profile.id, TRUE,
                       <<r.profile>>, <<>>)

\* the profile found by email, and the answer of a login that got as far
LoginAnswer(r, saved) ==
    LET op == Handler("login", r.kind)
        found == SelectSeq(Profiles(r.kind), LAMBDA p : p.email = r.email)
    IN res' = IF Len(found) = 0
              THEN [Response(op, 404, NoId, saved, <<>>, <<r.stored>>)
                       EXCEPT !.message = "account not found"]
              ELSE Response(op, 200, found[1].id, saved, <<found[1]>>, <<r.stored>>)

\* POST /api/users/login and POST /api/stylists/login, up to the first await that
\* suspends the handler: bcrypt.compare for a hashed password; for a legacy
\* password the comparison is made at once and the handler goes on to await
\* hashPassword
login(kind, raw) ==
    /\ now < MaxAccountRequests
    /\ now' = Tick
    /\ UNCHANGED <<appointments, appointmentsFile, auth>>
    /\ IF ~validateUserLogin(raw)
       THEN Refused(Handler("login", kind), 400, "invalid") /\ UNCHANGED inflight
       ELSE LET body == AccountBody(raw)
                emailLower == ToLowerCase(Trim(body.email)).v
                password == Text(Trim(body.password))
                storedPassword == IF Has(Credentials(kind), emailLower)
                                  THEN Credentials(kind)[emailLower]
                                  ELSE PlainText("")
            IN IF storedPassword = PlainText("")
               THEN Refused(Handler("login", kind), 401, "Invalid email or password")
                    /\ UNCHANGED inflight
               ELSE IF isPasswordHashed(storedPassword)
               THEN /\ inflight' = inflight \cup
                         { Suspended("login", kind, "compare", emailLower, password,
                                     NoProfile, storedPassword, Tick) }
                    /\ UNCHANGED <<res, profileStores, credentialStores>>
               ELSE IF ~comparePassword(password, storedPassword)
               THEN Refused(Handler("login", kind), 401, "Invalid email or password")
                    /\ UNCHANGED inflight
               ELSE /\ inflight' = inflight \cup
                         { Suspended("login", kind, "hash", emailLower, password,
                                     NoProfile, storedPassword, Tick) }
                    /\ UNCHANGED <<res, profileStores, credentialStores>>

\* loginUser and loginStylist after await comparePassword on a hashed password
loginCompared(r) ==
    /\ r.op = "login"
    /\ r.stage = "compare"
    /\ inflight' = inflight \ {r}
    /\ UNCHANGED <<now, appointments, appointmentsFile, auth>>
    /\ UNCHANGED <<profileStores, credentialStores>>
    /\ IF ~comparePassword(r.password, r.stored)
       THEN res' = [Response(Handler("login", r.kind), 401, NoId, FALSE, <<>>, <<>>)
                       EXCEPT !.message = "Invalid email or password"]
       ELSE LoginAnswer(r, FALSE)

\* loginUser and loginStylist after await hashPassword: the migration of a
\* legacy password
loginHashed(r, ok) ==
    /\ r.op = "login"
    /\ r.stage = "hash"
    /\ inflight' = inflight \ {r}
    /\ UNCHANGED <<now, appointments, appointmentsFile, profileStores, auth>>
    /\ SetCredentials(r.kind,
                      MapSet(Credentials(r.kind), r.email, hashPassword(r.password, r.t)),
                      ok)
    /\ LoginAnswer(r, TRUE)

\* PUT /api/users/:id and PUT /api/stylists/:id
update(kind, id, raw, ok1, ok2) ==
    /\ now < MaxAccountRequests
    /\ now' = Tick
    /\ UNCHANGED <<appointments, appointmentsFile, inflight, auth>>
    /\ IF ~validateUserUpdate(id, raw)
       THEN Refused(Handler("update", kind), 400, "invalid")
       ELSE LET body == AccountBody(raw)
                i == FindIndex(Profiles(kind), ParseInt(id))
            IN IF i = 0 THEN Refused(Handler("update", kind), 404, "not found")
               ELSE LET existing == Profiles(kind)[i]
                        newEmail == ToLowerCase(Trim(body.email)).v
                        oldEmail == existing.email
                        updated ==
                           [existing EXCEPT
                              !.name = IF FalsyText(body.name) THEN @
                                       ELSE Trim(body.name).v,
                              !.email = IF FalsyText(body.email) THEN @ ELSE newEmail]
                    IN /\ SetProfiles(kind, [Profiles(kind) EXCEPT ![i] = updated], ok1)
                       /\ IF /\ ~FalsyText(body.email)
                             /\ newEmail # oldEmail
                             /\ Has(Credentials(kind), oldEmail)
                          THEN SetCredentials(kind,
                                  MapSet(MapDelete(Credentials(kind), oldEmail),
                                         newEmail, Credentials(kind)[oldEmail]),
                                  ok2)
                          ELSE UNCHANGED credentialStores
                       /\ res' = Response(Handler("update", kind), 200, updated.id,
                                          TRUE, <<updated>>, <<existing>>)

registerUser(raw) == register("user", raw)

registerStylist(raw) == register("stylist", raw)

loginUser(raw) == login("user", raw)

loginStylist(raw) == login("stylist", raw)

updateUser(id, raw, ok1, ok2) == update("user", id, raw, ok1, ok2)

updateStylist(id, raw, ok1, ok2) == update("stylist", id, raw, ok1, ok2)

AccountsNext ==
    \/ \E raw \in RegisterBodies : registerUser(raw)
    \/ \E raw \in RegisterBodies : registerStylist(raw)
    \/ \E r \in inflight, ok1, ok2 \in BOOLEAN : registerHashed(r, ok1, ok2)
    \/ \E raw \in LoginBodies : loginUser(raw)
    \/ \E raw \in LoginBodies : loginStylist(raw)
    \/ \E r \in inflight : loginCompared(r)
    \/ \E r \in inflight, ok \in BOOLEAN : loginHashed(r, ok)
    \/ \E id \in AccountIds, raw \in UpdateBodies, ok1, ok2 \in BOOLEAN :
          updateUser(id, raw, ok1, ok2)
    \/ \E id \in AccountIds, raw \in UpdateBodies, ok1, ok2 \in BOOLEAN :
          updateStylist(id, raw, ok1, ok2)

AccountsSpec == AccountsInit /\ [][AccountsNext]_vars

\* routes/appointments.js: the handlers behind the validators, no authentication
Next ==
    \/ \E raw \in CreateBodies, ok \in BOOLEAN :
          createAppointment(raw, ok) /\ UNCHANGED auth
    \/ \E id \in AppointmentIds, ok \in BOOLEAN :
          acceptAppointment(id, ok) /\ UNCHANGED auth
    \/ \E id \in AppointmentIds, ok \in BOOLEAN :
          rejectAppointment(id, ok) /\ UNCHANGED auth
    \/ \E id \in AppointmentIds, raw \in SuggestBodies, ok \in BOOLEAN :
          suggestAppointment(id, raw, ok) /\ UNCHANGED auth
    \/ \E id \in AppointmentIds, ok \in BOOLEAN :
          acceptSuggestion(id, ok) /\ UNCHANGED auth
    \/ \E id \in AppointmentIds, ok \in BOOLEAN :
          rejectSuggestion(id, ok) /\ UNCHANGED auth
    \/ \E userId \in UserQueryIds, stylistId \in StylistQueryIds :
          getAppointments(userId, stylistId) /\ UNCHANGED auth

Spec == Init /\ [][Next]_vars

(***************************************************************************)
(* The appointments router with authentication: authenticate and           *)
(* requireUserType(['user', 'stylist']) of middleware/auth.js in front of   *)
(* the validators and the handlers.                                        *)
(***************************************************************************)
\* req.user as authenticate decodes it from the token that a login signed
Principals ==
    { NoUser,
      [id |-> 1, type |-> "user"],
      [id |-> 2, type |-> "user"],
      [id |-> 1, type |-> "stylist"] }

\* authenticate: a token that verifies
authenticate(user) == user # NoUser

requireUserType(user, allowedTypes) == user.type \in allowedTypes

\* the answer of the middleware that stops the request: nothing is changed
Denied(op, user) ==
    /\ res' = Response(op, IF authenticate(user) THEN 403 ELSE 401, NoId, FALSE, <<>>, <<>>)
    /\ now' = Tick
    /\ UNCHANGED <<accounts, appointments, appointmentsFile>>

\* a route of the router: the middleware, then the handler
Route(op, user, handler) ==
    /\ now < MaxAuthRequests
    /\ reqUser' = user
    /\ IF authenticate(user) /\ requireUserType(user, {"user", "stylist"})
       THEN handler
       ELSE Denied(op, user)

routeCreateAppointment(user, raw, ok) ==
    /\ Route("createAppointment", user, createAppointment(raw, ok))
    /\ UNCHANGED suggestedBy

routeGetAppointments(user, userId, stylistId) ==
    /\ Route("getAppointments", user, getAppointments(userId, stylistId))
    /\ UNCHANGED suggestedBy

routeAcceptAppointment(user, id, ok) ==
    /\ Route("acceptAppointment", user, acceptAppointment(id, ok))
    /\ UNCHANGED suggestedBy

routeRejectAppointment(user, id, ok) ==
    /\ Route("rejectAppointment", user, rejectAppointment(id, ok))
    /\ UNCHANGED suggestedBy

\* the one who suggests is remembered for the appointment
routeSuggestAppointment(user, id, raw, ok) ==
    /\ Route("suggestAppointment", user, suggestAppointment(id, raw, ok))
    /\ suggestedBy' = IF res'.code = 200 THEN MapSet(suggestedBy, res'.id, user)
                      ELSE suggestedBy

routeAcceptSuggestion(user, id, ok) ==
    /\ Route("acceptSuggestion", user, acceptSuggestion(id, ok))
    /\ suggestedBy' = IF res'.code = 200 THEN MapDelete(suggestedBy, res'.id)
                      ELSE suggestedBy

routeRejectSuggestion(user, id, ok) ==
    /\ Route("rejectSuggestion", user, rejectSuggestion(id, ok))
    /\ suggestedBy' = IF res'.code = 200 THEN MapDelete(suggestedBy, res'.id)
                      ELSE suggestedBy

AuthNext ==
    \/ \E user \in Principals, raw \in CreateBodies, ok \in BOOLEAN :
          routeCreateAppointment(user, raw, ok)
    \/ \E user \in Principals, userId \in UserQueryIds, stylistId \in StylistQueryIds :
          routeGetAppointments(user, userId, stylistId)
    \/ \E user \in Principals, id \in AppointmentIds, ok \in BOOLEAN :
          routeAcceptAppointment(user, id, ok)
    \/ \E user \in Principals, id \in AppointmentIds, ok \in BOOLEAN :
          routeRejectAppointment(user, id, ok)
    \/ \E user \in Principals, id \in AppointmentIds, raw \in SuggestBodies,
          ok \in BOOLEAN :
          routeSuggestAppointment(user, id, raw, ok)
    \/ \E user \in Principals, id \in AppointmentIds, ok \in BOOLEAN :
          routeAcceptSuggestion(user, id, ok)
    \/ \E user \in Principals, id \in AppointmentIds, ok \in BOOLEAN :
          routeRejectSuggestion(user, id, ok)

AuthSpec == Init /\ [][AuthNext]_vars

(***************************************************************************)
(* Properties.  The formulas state what a request does from the collection *)
(* it finds (unprimed) to the collection it leaves (primed); they look     *)
(* records up by id themselves.                                            *)
(***************************************************************************)
HasId(coll, id) == \E i \in 1..Len(coll) : coll[i].id = id

IsStylist(id) == \E i \in 1..Len(stylists) : stylists[i].id = id

\* the record with the id, in a collection that has exactly one
Rec(coll, id) == coll[CHOOSE i \in 1..Len(coll) : coll[i].id = id]

\* C1: a createAppointment request whose stylistId is the id of a stylist and whose
\* purpose, date and time are present, when it stores a record (201), appends one
\* record with status 'pending', suggestedDate = suggestedTime = null and an id
\* greater than the id of every appointment the collection already held.
C1_CreateStoresPendingFreshId ==
    [][\A raw \in CreateBodies, ok \in BOOLEAN :
          ( /\ res'.op = "createAppointment"
            /\ res'.code = 201
            /\ IsStylist(raw.stylistId)
            /\ raw.purpose.v # "" /\ raw.date.v # NULL /\ raw.time.v # NULL
            /\ createAppointment(raw, ok) )
          => /\ Len(appointments') = Len(appointments) + 1
             /\ SubSeq(appointments', 1, Len(appointments)) = appointments
             /\ LET a == appointments'[Len(appointments')] IN
                /\ a.status = "pending"
                /\ a.suggestedDate = NULL
                /\ a.suggestedTime = NULL
                /\ a.id = res'.id
                /\ \A i \in 1..Len(appointments) : a.id > appointments[i].id
      ]_vars

C1_Witness ==
    /\ res.op = "createAppointment"
    /\ res.code = 201
    /\ Len(appointments) = 2
    /\ appointments[2].id = res.id
    /\ appointments[2].status = "pending"
    /\ appointments[1].status # "pending"

\* C2 as stated: createAppointment with a stylistId that is the id of no stylist
\* always fails with 404 and leaves the collection and its file unchanged.
C2_UnknownStylistAlways404 ==
    [][\A raw \in CreateBodies, ok \in BOOLEAN :
          ( /\ res'.op = "createAppointment"
            /\ ~IsStylist(raw.stylistId)
            /\ createAppointment(raw, ok) )
          => /\ res'.code = 404
             /\ appointments' = appointments
             /\ appointmentsFile' = appointmentsFile
      ]_vars

\* C2 as amended: createAppointment with a stylistId that is the id of no stylist
\* stores nothing, in memory or on file, and saves nothing; it fails with 404 when
\* the request passes validateAppointmentCreation and its purpose is not empty
\* once sanitized, and with 400 otherwise.
C2_UnknownStylistStoresNothing ==
    [][\A raw \in CreateBodies, ok \in BOOLEAN :
          ( /\ res'.op = "createAppointment"
            /\ ~IsStylist(raw.stylistId)
            /\ createAppointment(raw, ok) )
          => /\ appointments' = appointments
             /\ appointmentsFile' = appointmentsFile
             /\ ~res'.saved
             /\ res'.code = IF validateAppointmentCreation(raw) /\ raw.purpose.v # ""
                           THEN 404 ELSE 400
      ]_vars

C2_Witness ==
    /\ res.op = "createAppointment"
    /\ res.code = 404
    /\ Len(appointments) = 1

\* C3: acceptSuggestion on an existing appointment whose suggestedDate or
\* suggestedTime is null fails with 400, leaves every field of every record as it
\* was (updatedAt included) and does not save.
C3_AcceptSuggestionWithoutSuggestion ==
    [][\A id \in AppointmentIds, ok \in BOOLEAN :
          ( /\ res'.op = "acceptSuggestion"
            /\ HasId(appointments, id)
            /\ \/ Rec(appointments, id).suggestedDate = NULL
               \/ Rec(appointments, id).suggestedTime = NULL
            /\ acceptSuggestion(id, ok) )
          => /\ res'.code = 400
             /\ ~res'.saved
             /\ appointments' = appointments
             /\ appointmentsFile' = appointmentsFile
      ]_vars

C3_Witness ==
    /\ res.op = "acceptSuggestion"
    /\ res.code = 400
    /\ HasId(appointments, res.id)
    /\ Rec(appointments, res.id).suggestedDate = NULL
    /\ Rec(appointments, res.id).status = "cancelled"
    /\ Rec(appointments, res.id).updatedAt < now

\* C4: after acceptSuggestion succeeds, from any prior status, date is the
\* suggestedDate and time the suggestedTime held before the call, suggestedDate
\* and suggestedTime are null and status is 'confirmed'.
C4_AcceptSuggestionEffect ==
    [][\A id \in AppointmentIds, ok \in BOOLEAN :
          ( /\ res'.op = "acceptSuggestion"
            /\ res'.code = 200
            /\ acceptSuggestion(id, ok) )
          => /\ HasId(appointments, id)
             /\ HasId(appointments', id)
             /\ LET old == Rec(appointments, id)
                    new == Rec(appointments', id)
                IN /\ old.suggestedDate # NULL
                   /\ old.suggestedTime # NULL
                   /\ new.date = old.suggestedDate
                   /\ new.time = old.suggestedTime
                   /\ new.suggestedDate = NULL
                   /\ new.suggestedTime = NULL
                   /\ new.status = "confirmed"
      ]_vars

C4_Witness ==
    /\ res.op = "acceptSuggestion"
    /\ res.code = 200
    /\ res.before[1].status = "cancelled"
    /\ res.before[1].suggestedTime # res.before[1].time
    /\ Rec(appointments, res.id).time = res.before[1].suggestedTime

\* C5: after rejectSuggestion on an existing appointment, date and time are as
\* before the call, suggestedDate and suggestedTime are null and status is 'pending'.
C5_RejectSuggestionEffect ==
    [][\A id \in AppointmentIds, ok \in BOOLEAN :
          ( /\ res'.op = "rejectSuggestion"
            /\ HasId(appointments, id)
            /\ rejectSuggestion(id, ok) )
          => /\ res'.code = 200
             /\ HasId(appointments', id)
             /\ LET old == Rec(appointments, id)
                    new == Rec(appointments', id)
                IN /\ new.date = old.date
                   /\ new.time = old.time
                   /\ new.suggestedDate = NULL
                   /\ new.suggestedTime = NULL
                   /\ new.status = "pending"
      ]_vars

C5_Witness ==
    /\ res.op = "rejectSuggestion"
    /\ res.code = 200
    /\ res.before[1].status = "confirmed"
    /\ res.before[1].suggestedDate # NULL
    /\ Rec(appointments, res.id).status = "pending"

\* C6: when the request served right after a successful Suggest on an appointment
\* is RejectSuggestion on that appointment, the date and time it leaves are those
\* the appointment had before the Suggest.
C6_SuggestThenRejectRoundTrip ==
    [][\A ok \in BOOLEAN :
          ( /\ res.op = "suggestAppointment"
            /\ res.code = 200
            /\ res'.op = "rejectSuggestion"
            /\ rejectSuggestion(res.id, ok) )
          => /\ HasId(appointments', res.id)
             /\ Rec(appointments', res.id).date = res.before[1].date
             /\ Rec(appointments', res.id).time = res.before[1].time
      ]_vars

C6_Witness ==
    /\ res.op = "rejectSuggestion"
    /\ res.code = 200
    /\ res.before[1].status = "pending"
    /\ res.before[1].suggestedDate # NULL
    /\ res.before[1].suggestedDate # res.before[1].date
    /\ res.before[1].updatedAt + 1 = now

\* C7: in every reachable state every appointment has suggestedDate and
\* suggestedTime both null or both non-null.
C7_SuggestionFieldsTogether ==
    \A i \in 1..Len(appointments) :
        (appointments[i].suggestedDate = NULL) <=> (appointments[i].suggestedTime = NULL)

C7_Witness ==
    /\ Len(appointments) = 2
    /\ appointments[1].suggestedDate # NULL
    /\ appointments[1].suggestedTime # NULL
    /\ appointments[1].status = "confirmed"
    /\ appointments[2].suggestedDate = NULL
    /\ appointments[2].suggestedTime = NULL
    /\ res.op = "acceptAppointment"
    /\ res.code = 200

\* C8: the handlers run one after the other in any order of arrival; in every
\* state they leave, the appointment ids are positive and pairwise distinct, and
\* no request changes or removes the id of a stored record, so that no id is
\* given out twice.
C8_IdsPositiveDistinctNeverReused ==
    [][ /\ \A i \in 1..Len(appointments') : appointments'[i].id >= 1
        /\ \A i, j \in 1..Len(appointments') :
              appointments'[i].id = appointments'[j].id => i = j
        /\ Len(appointments') >= Len(appointments)
        /\ \A i \in 1..Len(appointments) : appointments'[i].id = appointments[i].id
      ]_vars

C8_Witness ==
    /\ Len(appointments) = 2
    /\ appointments[1].stylistId # appointments[2].stylistId
    /\ appointments[1].id # appointments[2].id
    /\ res.op = "createAppointment"
    /\ res.code = 201

\* the filter the listing was asked for
Matches(a, query) ==
    /\ query[1] = NoId \/ a.userId = query[1]
    /\ query[2] = NoId \/ a.stylistId = query[2]

\* C9: getAppointments returns exactly the stored appointments that match every
\* filter supplied: each record returned is stored and matches, each stored record
\* that matches is returned, and none is returned twice.
C9_ListReturnsExactlyTheMatches ==
    (res.op = "getAppointments" /\ res.code = 200)
    => /\ \A k \in 1..Len(res.data) :
             /\ Matches(res.data[k], res.query)
             /\ \E i \in 1..Len(appointments) : appointments[i] = res.data[k]
       /\ \A i \in 1..Len(appointments) :
             Matches(appointments[i], res.query)
             => \E k \in 1..Len(res.data) : res.data[k] = appointments[i]
       /\ \A k, l \in 1..Len(res.data) : res.data[k] = res.data[l] => k = l

C9_Witness ==
    /\ res.op = "getAppointments"
    /\ res.code = 200
    /\ res.query[1] # NoId
    /\ res.query[2] # NoId
    /\ Len(res.data) = 0
    /\ \E i \in 1..Len(appointments) : appointments[i].userId = res.query[1]
    /\ \E i \in 1..Len(appointments) : appointments[i].stylistId = res.query[2]

\* (date, time) of a is chronologically not earlier than (date, time) of b
NotEarlier(a, b) ==
    LET ka == <<a.date[1], a.date[2], a.date[3], a.time[2], a.time[3]>>
        kb == <<b.date[1], b.date[2], b.date[3], b.time[2], b.time[3]>>
    IN \/ ka = kb
       \/ \E n \in 1..5 : /\ \A m \in 1..(n - 1) : ka[m] = kb[m]
                          /\ ka[n] > kb[n]

\* C10: of any two consecutive records getAppointments returns, the first is
\* chronologically not earlier than the second, for every stored date YYYY-MM-DD
\* and every stored time H:MM or HH:MM.
C10_ListSortedDescending ==
    (res.op = "getAppointments" /\ res.code = 200)
    => \A k \in 1..(Len(res.data) - 1) : NotEarlier(res.data[k], res.data[k + 1])

\* the handlers of the five PUT routes and of the six transitions
PutOps ==
    { "acceptAppointment", "rejectAppointment", "suggestAppointment",
      "acceptSuggestion", "rejectSuggestion" }

Transitions == PutOps \cup {"createAppointment"}

\* every collection in memory and every file
AllStores ==
    <<stylists, users, userCredentials, stylistCredentials, appointments,
      stylistsFile, usersFile, credentialsFile, appointmentsFile>>

\* a step of the handler named, of those that take an id and no body
PutStep(op, id, ok) ==
    \/ op = "acceptAppointment" /\ acceptAppointment(id, ok)
    \/ op = "rejectAppointment" /\ rejectAppointment(id, ok)
    \/ op = "acceptSuggestion" /\ acceptSuggestion(id, ok)
    \/ op = "rejectSuggestion" /\ rejectSuggestion(id, ok)

\* C11 as stated: each of Accept, Reject, Suggest, AcceptSuggestion and
\* RejectSuggestion, called with an id that no stored appointment has, answers 404
\* and leaves every collection and every file as it was.
C11_UnknownIdAlways404 ==
    [][\A id \in AppointmentIds, raw \in SuggestBodies, ok \in BOOLEAN :
          ( /\ res'.op \in PutOps
            /\ ~HasId(appointments, id)
            /\ \/ acceptAppointment(id, ok)
               \/ rejectAppointment(id, ok)
               \/ suggestAppointment(id, raw, ok)
               \/ acceptSuggestion(id, ok)
               \/ rejectSuggestion(id, ok) )
          => /\ res'.code = 404
             /\ UNCHANGED AllStores
      ]_vars

\* C11, amended: such a call changes no collection and no file and saves nothing;
\* it answers 404 when the id is an integer >= 1 and, for Suggest, the body passes
\* validateAppointmentSuggestion, and 400 when not.
C11_UnknownIdChangesNothing ==
    [][res'.op \in PutOps =>
       LET refused == ~res'.saved /\ UNCHANGED AllStores
           unknown == {id \in AppointmentIds : ~HasId(appointments, id)}
       IN IF res'.op = "suggestAppointment"
          THEN \A id \in unknown, raw \in SuggestBodies :
                  \/ /\ refused
                     /\ res'.code = IF validateAppointmentSuggestion(id, raw)
                                    THEN 404 ELSE 400
                  \/ \A ok \in BOOLEAN : ~suggestAppointment(id, raw, ok)
          ELSE \A id \in unknown :
                  \/ /\ refused
                     /\ res'.code = IF validateAppointmentId(id) THEN 404 ELSE 400
                  \/ \A ok \in BOOLEAN : ~PutStep(res'.op, id, ok)
      ]_vars

C11_Witness ==
    /\ res.op = "suggestAppointment"
    /\ res.code = 404
    /\ Len(appointments) = 2
    /\ appointmentsFile # appointments

\* a step of one of the six transitions whose write to the file goes as ok says
TransitionStep(ok) ==
    \/ res'.op = "createAppointment"
       /\ \E raw \in CreateBodies : createAppointment(raw, ok)
    \/ res'.op = "suggestAppointment"
       /\ \E id \in AppointmentIds, raw \in SuggestBodies : suggestAppointment(id, raw, ok)
    \/ \E id \in AppointmentIds : PutStep(res'.op, id, ok)

\* C16: a transition that succeeds stamps updatedAt of its record with the time of
\* the request and calls saveAppointments on the collection as it is after every
\* change (what is written, when the write goes through, is the whole changed
\* collection), and the record it answers with is the changed one; a transition
\* that fails with 400 or 404 does not call saveAppointments.
C16_SuccessStampsThenPersists ==
    [][\A ok \in BOOLEAN :
          /\ ( /\ res'.op \in Transitions
               /\ res'.code \in {200, 201} )
             => \/ /\ res'.saved
                   /\ HasId(appointments', res'.id)
                   /\ Rec(appointments', res'.id).updatedAt = now'
                   /\ res'.data = <<Rec(appointments', res'.id)>>
                   /\ appointmentsFile' = IF ok THEN appointments' ELSE appointmentsFile
                \/ ~TransitionStep(ok)
          /\ ( /\ res'.op \in Transitions
               /\ res'.code \in {400, 404} )
             => /\ ~res'.saved
                /\ appointmentsFile' = appointmentsFile
      ]_vars

C16_Witness ==
    /\ res.op = "suggestAppointment"
    /\ res.code = 200
    /\ res.saved
    /\ Len(appointments) = 2
    /\ appointmentsFile = appointments
    /\ Rec(appointments, res.id).updatedAt = now
    /\ Rec(appointments, res.id).createdAt < now

\* C17 as stated: a mutating appointment operation answers success only when the
\* file holds the collection that is in memory (a failed write is answered 500).
C17_SuccessImpliesPersisted ==
    (res.op \in Transitions /\ res.code \in {200, 201})
    => appointmentsFile = appointments

\* C18: Accept (Reject) on an existing appointment, whatever its status, sets
\* status to 'confirmed' ('cancelled') and updatedAt to the time of the request,
\* and changes no other field of it and no other record.
C18_AcceptRejectFrame ==
    [][\A id \in AppointmentIds, ok \in BOOLEAN :
          /\ ( /\ res'.op = "acceptAppointment"
               /\ HasId(appointments, id)
               /\ acceptAppointment(id, ok) )
             => /\ res'.code = 200
                /\ Len(appointments') = Len(appointments)
                /\ \A i \in 1..Len(appointments) :
                      appointments'[i] =
                         IF appointments[i].id = id
                         THEN [appointments[i] EXCEPT !.status = "confirmed",
                                                      !.updatedAt = now']
                         ELSE appointments[i]
          /\ ( /\ res'.op = "rejectAppointment"
               /\ HasId(appointments, id)
               /\ rejectAppointment(id, ok) )
             => /\ res'.code = 200
                /\ Len(appointments') = Len(appointments)
                /\ \A i \in 1..Len(appointments) :
                      appointments'[i] =
                         IF appointments[i].id = id
                         THEN [appointments[i] EXCEPT !.status = "cancelled",
                                                      !.updatedAt = now']
                         ELSE appointments[i]
      ]_vars

C18_Witness ==
    /\ res.op = "acceptAppointment"
    /\ res.code = 200
    /\ res.before[1].status = "cancelled"
    /\ res.before[1].suggestedDate # NULL
    /\ Rec(appointments, res.id).status = "confirmed"
    /\ Rec(appointments, res.id).suggestedDate = res.before[1].suggestedDate
    /\ Rec(appointments, res.id).updatedAt > res.before[1].updatedAt

\* C19: Suggest on an existing appointment, with a suggested date and time that
\* pass the validator, sets suggestedDate and suggestedTime to the values supplied
\* (trimmed), leaves date and time as they were and sets status to 'pending'
\* whatever it was.
C19_SuggestReopens ==
    [][res'.op = "suggestAppointment" =>
       \A id \in AppointmentIds, raw \in SuggestBodies :
          ( /\ HasId(appointments, id)
            /\ validateAppointmentSuggestion(id, raw) )
          => \/ /\ res'.code = 200
                /\ HasId(appointments', id)
                /\ LET old == Rec(appointments, id)
                       new == Rec(appointments', id)
                   IN /\ new.suggestedDate = raw.suggestedDate.v
                      /\ new.suggestedTime = raw.suggestedTime.v
                      /\ new.date = old.date
                      /\ new.time = old.time
                      /\ new.status = "pending"
             \/ \A ok \in BOOLEAN : ~suggestAppointment(id, raw, ok)
      ]_vars

C19_Witness ==
    /\ res.op = "suggestAppointment"
    /\ res.code = 200
    /\ res.before[1].status = "confirmed"
    /\ Rec(appointments, res.id).status = "pending"
    /\ Rec(appointments, res.id).suggestedDate # res.before[1].suggestedDate
    /\ Rec(appointments, res.id).date = res.before[1].date

\* what a request on the appointment can make of its status while requests are served
CanBecome(id, status) ==
    \/ status = "confirmed"
       /\ ENABLED (acceptAppointment(id, TRUE)
                   /\ Rec(appointments', id).status = "confirmed")
    \/ status = "cancelled"
       /\ ENABLED (rejectAppointment(id, TRUE)
                   /\ Rec(appointments', id).status = "cancelled")
    \/ status = "pending"
       /\ ENABLED (rejectSuggestion(id, TRUE)
                   /\ Rec(appointments', id).status = "pending")

\* C20: no status is terminal.  On a cancelled appointment Accept leaves it
\* confirmed, Suggest leaves it pending with both suggestion fields set, and
\* AcceptSuggestion, when a suggestion is attached, leaves it confirmed; and in
\* every state, for every stored appointment and each of pending, confirmed and
\* cancelled, a request that leaves the appointment in that status can be served.
C20_NoStatusIsTerminal ==
    /\ [][\A id \in AppointmentIds, ok \in BOOLEAN :
             /\ ( /\ res'.op = "acceptAppointment"
                  /\ HasId(appointments, id)
                  /\ Rec(appointments, id).status = "cancelled"
                  /\ acceptAppointment(id, ok) )
                => Rec(appointments', id).status = "confirmed"
             /\ \A raw \in SuggestBodies :
                   ( /\ res'.op = "suggestAppointment"
                     /\ HasId(appointments, id)
                     /\ Rec(appointments, id).status = "cancelled"
                     /\ validateAppointmentSuggestion(id, raw)
                     /\ suggestAppointment(id, raw, ok) )
                   => /\ Rec(appointments', id).status = "pending"
                      /\ Rec(appointments', id).suggestedDate # NULL
                      /\ Rec(appointments', id).suggestedTime # NULL
             /\ ( /\ res'.op = "acceptSuggestion"
                  /\ HasId(appointments, id)
                  /\ Rec(appointments, id).status = "cancelled"
                  /\ ~NoSuggestion(Rec(appointments, id))
                  /\ acceptSuggestion(id, ok) )
                => Rec(appointments', id).status = "confirmed"
       ]_vars
    /\ [](now < MaxClock =>
             \A i \in 1..Len(appointments) :
                \A status \in {"pending", "confirmed", "cancelled"} :
                   CanBecome(appointments[i].id, status))

C20_Witness ==
    /\ res.op = "acceptAppointment"
    /\ res.code = 200
    /\ res.before[1].status = "cancelled"
    /\ res.before[1].suggestedDate = NULL
    /\ Rec(appointments, res.id).status = "confirmed"

(***************************************************************************)
(* Properties of the accounts.                                             *)
(***************************************************************************)
Emails == {"ann@x.com", "bob@x.com"}

\* email.trim().toLowerCase() of a request
Normalized(raw) == raw.email.v

\* C12: a registration that comes right after a registration of the same kind
\* has succeeded, for the same trimmed, lower-cased email, is refused (400) and,
\* when nothing else is wrong with it, as already registered; it adds no profile,
\* and the credential map holds what it held: for that email, the hash that the
\* first registration stored.
C12_SecondRegistrationRefused ==
    [][\A kind \in Kinds, raw \in RegisterBodies :
          ( /\ res.op = Handler("register", kind)
            /\ res.code = 201
            /\ Normalized(raw) = res.data[1].email
            /\ register(kind, raw) )
          => /\ res'.op = Handler("register", kind)
             /\ res'.code = 400
             /\ validateUserRegistration(raw) => res'.message = "already registered"
             /\ inflight' = inflight
             /\ UNCHANGED <<stylists, users, userCredentials, stylistCredentials>>
             /\ Has(Credentials(kind), Normalized(raw))
             /\ Credentials(kind)[Normalized(raw)].hashed
      ]_vars

C12_Witness ==
    /\ res.op = "registerUser"
    /\ res.code = 400
    /\ res.message = "already registered"
    /\ Len(users) = 1
    /\ users[1].email = "ann@x.com"
    /\ DOMAIN userCredentials = {"ann@x.com"}
    /\ userCredentials["ann@x.com"].hashed

\* C13 as stated: in every reachable state no two users have the same email and
\* no two stylists have the same email.
C13_EmailsUnique ==
    \A kind \in Kinds :
       \A i, j \in 1..Len(Profiles(kind)) :
          Profiles(kind)[i].email = Profiles(kind)[j].email => i = j

LoginOps == {"loginUser", "loginStylist"}

KindOf(op) == IF op \in {"loginUser", "registerUser", "updateUser"} THEN "user" ELSE "stylist"

\* what credentials.json holds for the email, as Credentials(kind) is what the map holds
Persisted(kind, email) ==
    IF credentialsFile = NULL THEN EmptyMap
    ELSE IF kind = "user" THEN credentialsFile.users ELSE credentialsFile.stylists

\* C14 as stated: when a login succeeds for an email whose stored password was a
\* legacy one when read, the map and the file hold a hash under that email by the
\* time of the answer; and once a login has succeeded for an email, what is
\* stored under it is never a legacy password again.
C14_LoginMigratesForGood ==
    /\ []( ( /\ res.op \in LoginOps
             /\ res.code = 200
             /\ ~res.before[1].hashed )
           => LET kind == KindOf(res.op)
                  email == res.data[1].email
              IN /\ Has(Credentials(kind), email)
                 /\ Credentials(kind)[email].hashed
                 /\ Has(Persisted(kind, email), email)
                 /\ Persisted(kind, email)[email] = Credentials(kind)[email] )
    /\ \A kind \in Kinds, email \in Emails :
          []( ( /\ res.op = Handler("login", kind)
                /\ res.code = 200
                /\ res.data[1].email = email )
              => [](Has(Credentials(kind), email) => Credentials(kind)[email].hashed) )

\* a login refused for the email: there is no stored password, or it is not the
\* password of the request
NoMatch(kind, raw) ==
    \/ ~Has(Credentials(kind), Normalized(raw))
    \/ Credentials(kind)[Normalized(raw)].of # Text(Trim(raw.password))

\* C15 as stated: a login for an email that has no stored password, or with a
\* password that is not the stored one, is answered 401 and changes no collection
\* and no file; a legacy password stays as it was.
C15_FailedLoginAlways401 ==
    [][/\ \A kind \in Kinds, raw \in LoginBodies :
             (NoMatch(kind, raw) /\ login(kind, raw))
             => /\ UNCHANGED AllStores
                /\ inflight' = inflight => res'.code = 401
       /\ \A r \in inflight :
             (r.password # r.stored.of /\ loginCompared(r))
             => /\ UNCHANGED AllStores
                /\ res'.code = 401
      ]_vars

\* C15, amended: such a login changes no collection and no file, and a legacy
\* password is not migrated; the answer is 401 when the request passes
\* validateUserLogin (a well-formed email, a password that is not empty) and 400
\* when it does not.  The answer to a request against a hashed password comes
\* when bcrypt.compare is through.
C15_FailedLoginChangesNothing ==
    [][/\ \A kind \in Kinds, raw \in LoginBodies :
             (NoMatch(kind, raw) /\ login(kind, raw))
             => /\ UNCHANGED AllStores
                /\ \/ /\ inflight' = inflight
                      /\ res'.op = Handler("login", kind)
                      /\ res'.code = IF validateUserLogin(raw) THEN 401 ELSE 400
                   \/ /\ inflight' # inflight
                      /\ Has(Credentials(kind), Normalized(raw))
                      /\ Credentials(kind)[Normalized(raw)].hashed
                      /\ res' = res
       /\ \A r \in inflight :
             (r.password # r.stored.of /\ loginCompared(r))
             => /\ UNCHANGED AllStores
                /\ res'.op = Handler("login", r.kind)
                /\ res'.code = 401
      ]_vars

C15_Witness ==
    /\ res.op = "loginUser"
    /\ res.code = 401
    /\ now = 1
    /\ Has(userCredentials, "ann@x.com")
    /\ userCredentials["ann@x.com"] = PlainText("secret1")
    /\ credentialsFile = StoredCredentials
    /\ inflight = {}

(***************************************************************************)
(* Properties of the authenticated router.                                 *)
(***************************************************************************)
\* the customer or the stylist of the appointment
IsParticipant(user, a) ==
    \/ user.type = "user" /\ user.id = a.userId
    \/ user.type = "stylist" /\ user.id = a.stylistId

\* C21 as stated: acceptSuggestion and rejectSuggestion change an appointment only
\* for a request whose req.user is the customer or the stylist of the appointment
\* and is not the one who made the suggestion.
C21_OnlyCounterPartyAnswers ==
    [][\A user \in Principals, id \in AppointmentIds, ok \in BOOLEAN :
          ( /\ res'.code = 200
            /\ \/ routeAcceptSuggestion(user, id, ok)
               \/ routeRejectSuggestion(user, id, ok) )
          => /\ authenticate(user)
             /\ IsParticipant(user, Rec(appointments, id))
             /\ Has(suggestedBy, id) => suggestedBy[id] # user
      ]_vars

(***************************************************************************)
(* Properties of the accounts when requests overlap.                       *)
(***************************************************************************)
\* C22 as stated: in every reachable state the ids of the users are pairwise
\* distinct and the ids of the stylists are pairwise distinct, also when two
\* registrations are suspended at await hashPassword at the same time.
C22_ProfileIdsDistinct ==
    \A kind \in Kinds :
       \A i, j \in 1..Len(Profiles(kind)) :
          Profiles(kind)[i].id = Profiles(kind)[j].id => i = j

\* C23 as stated: of two registrations of the same kind for the same normalized
\* email that are in flight together, at most one succeeds: when one has answered
\* 201 and the other comes back from await hashPassword, the other does not
\* answer 201, adds no profile and leaves the credential of the first in place.
C23_OverlappingSameEmailOneWins ==
    [][\A r \in inflight, ok1, ok2 \in BOOLEAN :
          ( /\ r.op = "register"
            /\ res.op = Handler("register", r.kind)
            /\ res.code = 201
            /\ res.data[1].email = r.email
            /\ registerHashed(r, ok1, ok2) )
          => /\ res'.code # 201
             /\ Profiles(r.kind)' = Profiles(r.kind)
             /\ Credentials(r.kind)' = Credentials(r.kind)
      ]_vars

(***************************************************************************)
(* Properties of the life of an appointment.                               *)
(***************************************************************************)
\* the fields that are written once, when the appointment is created
Identity(a) ==
    <<a.id, a.stylistId, a.userId, a.purpose, a.customerName, a.customerEmail,
      a.customerPhone, a.services, a.createdAt>>

\* C24: no request changes id, stylistId, userId, purpose, customerName,
\* customerEmail, customerPhone, services or createdAt of a stored appointment
\* (a record has no other fields than these and date, time, status, suggestedDate,
\* suggestedTime and updatedAt), and no request removes an appointment: every
\* record stays at its index.
C24_CreationFieldsNeverChange ==
    [][ /\ Len(appointments') >= Len(appointments)
        /\ \A i \in 1..Len(appointments) :
              /\ Identity(appointments'[i]) = Identity(appointments[i])
              /\ DOMAIN appointments'[i] =
                    { "id", "stylistId", "userId", "purpose", "customerName",
                      "customerEmail", "customerPhone", "services", "createdAt",
                      "date", "time", "status", "suggestedDate", "suggestedTime",
                      "updatedAt" }
      ]_vars

C24_Witness ==
    /\ res.op = "acceptSuggestion"
    /\ res.code = 200
    /\ Len(appointments) = 2
    /\ res.data[1].date # res.before[1].date
    /\ res.data[1].status # res.before[1].status
    /\ res.data[1].updatedAt # res.before[1].updatedAt
    /\ res.data[1].suggestedDate # res.before[1].suggestedDate
    /\ Identity(res.data[1]) = Identity(res.before[1])

\* C25: rejectSuggestion on a stored appointment asks for no suggestion: with
\* or without one attached, and from any status, it answers 200 and leaves the
\* appointment 'pending'; so does a rejectSuggestion that follows a Suggest on
\* an appointment that was 'confirmed'.
C25_RejectSuggestionNeedsNoSuggestion ==
    [][\A id \in AppointmentIds, ok \in BOOLEAN :
          ( /\ res'.op = "rejectSuggestion"
            /\ HasId(appointments, id)
            /\ rejectSuggestion(id, ok) )
          => /\ res'.code = 200
             /\ Rec(appointments', id).status = "pending"
             /\ Rec(appointments', id).suggestedDate = NULL
             /\ Rec(appointments', id).suggestedTime = NULL
      ]_vars

C25_Witness ==
    /\ res.op = "rejectSuggestion"
    /\ res.code = 200
    /\ res.before[1].suggestedDate = NULL
    /\ res.before[1].suggestedTime = NULL
    /\ res.before[1].status = "confirmed"
    /\ Rec(appointments, res.id).status = "pending"

\* the date and time agreed, and those suggested
Agreed(a) == <<a.date, a.time>>

Offered(a) == <<a.suggestedDate, a.suggestedTime>>

\* C26: the date and time of a stored appointment change only in an
\* acceptSuggestion that answers 200 for it, and become the pair that was
\* suggested; the suggested pair changes only when a Suggest sets it or when it
\* is cleared; and after an Accept that has left a suggestion attached, an
\* acceptSuggestion can move the confirmed appointment to another date or time.
C26_DateTimeOnlyByAcceptSuggestion ==
    /\ [][\A i \in 1..Len(appointments) :
             /\ Agreed(appointments'[i]) # Agreed(appointments[i])
                => /\ res'.op = "acceptSuggestion"
                   /\ res'.code = 200
                   /\ res'.id = appointments[i].id
                   /\ Agreed(appointments'[i]) = Offered(appointments[i])
             /\ Offered(appointments'[i]) # Offered(appointments[i])
                => \/ Offered(appointments'[i]) = <<NULL, NULL>>
                   \/ /\ res'.op = "suggestAppointment"
                      /\ res'.code = 200
                      /\ res'.id = appointments[i].id
         ]_vars
    /\ []( ( /\ res.op = "acceptAppointment"
             /\ res.code = 200
             /\ ~NoSuggestion(res.data[1])
             /\ Agreed(res.data[1]) # Offered(res.data[1])
             /\ now < MaxClock )
           => ENABLED ( /\ acceptSuggestion(res.id, TRUE)
                        /\ Rec(appointments, res.id).status = "confirmed"
                        /\ Agreed(Rec(appointments', res.id)) # Agreed(Rec(appointments, res.id)) ) )

C26_Witness ==
    /\ res.op = "acceptSuggestion"
    /\ res.code = 200
    /\ res.before[1].status = "confirmed"
    /\ res.before[1].updatedAt = now - 1
    /\ res.before[1].updatedAt >= 1
    /\ Agreed(res.data[1]) = Offered(res.before[1])
    /\ Agreed(res.data[1]) # Agreed(res.before[1])

(***************************************************************************)
(* Properties of the credentials next to the profiles.                     *)
(***************************************************************************)
\* C27 as stated: an update that moves an account to an email under which
\* another credential is stored leaves that credential as it is.
C27_UpdateKeepsOthersCredential ==
    [][\A kind \in Kinds, id \in AccountIds, raw \in UpdateBodies, ok1, ok2 \in BOOLEAN :
          ( /\ update(kind, id, raw, ok1, ok2)
            /\ res'.code = 200
            /\ res'.data[1].email # res'.before[1].email
            /\ Has(Credentials(kind), res'.data[1].email) )
          => /\ Has(Credentials(kind)', res'.data[1].email)
             /\ Credentials(kind)'[res'.data[1].email]
                   = Credentials(kind)[res'.data[1].email]
      ]_vars

\* the emails of the profiles
EmailsOf(coll) == { coll[i].email : i \in 1..Len(coll) }

\* the credential keys are the emails of the profiles
Coincide(kind) == DOMAIN Credentials(kind) = EmailsOf(Profiles(kind))

\* C28 as stated: when the server starts with credential keys and profile emails
\* that coincide, they coincide, for each kind, in every state in which no
\* handler is suspended at an await.
\* (The users start with keys and emails that coincide in every start of the
\* model; the stylists do when the files of an earlier run are read.)
C28_KeysAreEmailsWhenQuiescent ==
    /\ [](inflight = {} => Coincide("user"))
    /\ Coincide("stylist") => [](inflight = {} => Coincide("stylist"))

\* data/users.json or data/stylists.json
ProfileFile(kind) == IF kind = "user" THEN usersFile ELSE stylistsFile

\* what a restart would read: the keys of credentials.json are the emails of the
\* profile file of the kind
FilesAgree(kind, credentials, profiles) ==
    LET keys == IF credentials = NULL THEN {}
                ELSE IF kind = "user" THEN DOMAIN credentials.users
                ELSE DOMAIN credentials.stylists
        emails == IF profiles = NULL THEN {} ELSE EmailsOf(profiles)
    IN keys = emails

\* C29 as stated: when the files agree before a registration comes back from
\* await hashPassword or before an update that changes an email, they agree at
\* each point where the process can stop: between the two writes (credentials
\* before profiles in a registration, profiles before credentials in an update)
\* and after them.
C29_FilesAgreeAtEveryCrashPoint ==
    [][/\ \A r \in inflight, ok1, ok2 \in BOOLEAN :
             ( /\ r.op = "register"
               /\ FilesAgree(r.kind, credentialsFile, ProfileFile(r.kind))
               /\ registerHashed(r, ok1, ok2) )
             => /\ FilesAgree(r.kind, credentialsFile', ProfileFile(r.kind))
                /\ FilesAgree(r.kind, credentialsFile', ProfileFile(r.kind)')
       /\ \A kind \in Kinds, id \in AccountIds, raw \in UpdateBodies, ok1, ok2 \in BOOLEAN :
             ( /\ FilesAgree(kind, credentialsFile, ProfileFile(kind))
               /\ update(kind, id, raw, ok1, ok2)
               /\ res'.code = 200
               /\ res'.data[1].email # res'.before[1].email )
             => /\ FilesAgree(kind, credentialsFile, ProfileFile(kind)')
                /\ FilesAgree(kind, credentialsFile', ProfileFile(kind)')
      ]_vars

\* C30 as stated: when the server has started with the stylists of the initial
\* data (no stylists.json to read), a credential is stored under the email of
\* each of them.
C30_SeedStylistsHaveCredentials ==
    ( /\ res.op = "none"
      /\ now = 0
      /\ stylistsFile = NULL
      /\ stylists = SeedStylists )
    => \A i \in 1..Len(SeedStylists) :
          Has(stylistCredentials, SeedStylists[i].email)

====
